---------------------------- MODULE Spec2Model ----------------------------
(***************************************************************************)
(* Verification model of dv-flow-libfusesoc:                               *)
(*   - FilesetConverter   (fusesoc_fileset.py)                             *)
(*   - EdamBuilder        (edam_builder.py)                                *)
(*   - EdalizeBackend     (edalize_backend.py)                             *)
(*   - the task wrappers CoreResolve, SimConfigure, SimBuild, SimRun       *)
(*     (fusesoc_core_resolve.py, edalize_sim.py)                           *)
(*                                                                         *)
(* Python values are represented as follows.  A dict is a function whose   *)
(* DOMAIN is its key set; None is the record None; a path or a path-like   *)
(* string is a record [abs, parts] (is it absolute, and its components);   *)
(* a value whose Python type matters carries a type tag [ty, v].           *)
(***************************************************************************)
EXTENDS Naturals, Sequences, FiniteSets, TLC

VARIABLES
    \* ---- FilesetConverter and the filesystem it looks at
    core_root,      \* FilesetConverter.core_root
    files_root,     \* the files_root argument of the constructor (None or a path)
    fs_files,       \* canonical absolute paths of the regular files on disk
    symlinks,       \* symbolic links on disk: canonical link path -> canonical target
    conv_call,      \* the call made on the converter: [op, arg, done, raised, ret]
    \* ---- one EdamBuilder and what its build() has handed out
    heap,           \* the dict objects: reference -> descriptor
    self_edam,      \* EdamBuilder.edam: the reference the builder holds
    build_ret,      \* what the last build() returned: nothing yet, an error, a reference
    snapshot,       \* the descriptor as it was when the last build() returned it
    last_call,      \* the last method called on the builder: [op, arg, raised]
    ncalls,         \* the number of methods called on the builder
    \* ---- the task wrappers and the disk they work on
    work_dirs,      \* the directories the tasks have created on disk
    configured,     \* rundir -> the tool SimConfigure succeeded with there, or NoneS
    task_call,      \* the task invocation whose result the scheduler holds
    backend         \* an EdalizeBackend used directly: [obj, log], or None

convVars == <<core_root, files_root, fs_files, symlinks, conv_call>>

bldVars == <<heap, self_edam, build_ret, snapshot, last_call, ncalls>>

taskVars == <<work_dirs, configured, task_call, backend>>

vars == <<convVars, bldVars, taskVars>>

-----------------------------------------------------------------------------
(* Bounds of the model *)

\* longest file list built from CoreRecords that is handed to an operation
MaxFiles == 2

\* most method calls made on one EdamBuilder
MaxCalls == 3

-----------------------------------------------------------------------------
(* Python values *)

None == [none |-> TRUE]

\* None where the other values are strings
NoneS == "<None>"

EmptyDict == <<>>

\* d.get(k, default)
Get(d, k, default) == IF k \in DOMAIN d THEN d[k] ELSE default

\* the sequences over S of length at most n
SeqsUpTo(S, n) == UNION {[1..k -> S] : k \in 0..n}

-----------------------------------------------------------------------------
(* Paths: pathlib.Path and os.path over a small filesystem *)

Rel(parts) == [abs |-> FALSE, parts |-> parts]
Abs(parts) == [abs |-> TRUE, parts |-> parts]

\* the working directory of the process
Cwd == <<"cwd">>

\* the empty string as a file name
EmptyStr == Rel(<<>>)

IsPrefix(s, t) == Len(s) <= Len(t) /\ SubSeq(t, 1, Len(s)) = s

Parent(parts) == IF parts = <<>> THEN <<>> ELSE SubSeq(parts, 1, Len(parts) - 1)

\* os.path.isabs(filename)
IsAbs(p) == p.abs

\* Path.__truediv__: root / filename; an absolute right operand replaces the left
Join(root, fn) ==
    IF fn.abs THEN fn ELSE [abs |-> root.abs, parts |-> root.parts \o fn.parts]

\* the components of a path made absolute against the working directory
Absolute(p) == IF p.abs THEN p.parts ELSE Cwd \o p.parts

\* a symbolic link is replaced by its target
Follow(parts) == IF parts \in DOMAIN symlinks THEN symlinks[parts] ELSE parts

\* a directory entry (file, link or directory) at the canonical path `parts`
IsEntry(parts) ==
    \/ parts = <<>>
    \/ \E f \in fs_files \cup DOMAIN symlinks : IsPrefix(parts, f)

IsDir(parts) ==
    \/ parts = <<>>
    \/ \E f \in fs_files \cup DOMAIN symlinks : IsPrefix(parts, f) /\ parts # f

RECURSIVE Walk(_, _)
\* realpath, non-strict: components are consumed left to right, ".." pops the
\* canonical prefix, links are followed, missing components are kept as written
Walk(cur, rest) ==
    IF rest = <<>> THEN cur
    ELSE IF Head(rest) = ".." THEN Walk(Parent(cur), Tail(rest))
    ELSE Walk(Follow(Append(cur, Head(rest))), Tail(rest))

\* a resolve that does not make a relative path absolute
ResolveLexical(p) == [abs |-> p.abs, parts |-> Walk(<<>>, p.parts)]

\* Path.resolve()
Resolve(p) == Abs(Walk(<<>>, Absolute(p)))

RECURSIVE ExistsWalk(_, _)
ExistsWalk(cur, rest) ==
    IF rest = <<>> THEN IsEntry(cur)
    ELSE /\ IsDir(cur)
         /\ IF Head(rest) = ".." THEN ExistsWalk(Parent(cur), Tail(rest))
            ELSE ExistsWalk(Follow(Append(cur, Head(rest))), Tail(rest))

\* Path.exists(): follows links; every directory on the way must exist
Exists(p) == ExistsWalk(<<>>, Absolute(p))

\* Path.parent
PathParent(p) == [abs |-> p.abs, parts |-> Parent(p.parts)]

-----------------------------------------------------------------------------
(* FilesetConverter *)

FILE_TYPE_MAP ==
    ("verilogSource" :> "verilog") @@
    ("systemVerilogSource" :> "systemverilog") @@
    ("vhdlSource" :> "vhdl") @@
    ("vhdlSource-2008" :> "vhdl") @@
    ("tclSource" :> "tcl") @@
    ("user" :> "user") @@
    ("xdc" :> "constraint") @@
    ("SDC" :> "constraint") @@
    ("UCF" :> "constraint") @@
    ("PCF" :> "constraint") @@
    ("LPF" :> "constraint")

\* FilesetConverter.__init__: self.files_root
SelfFilesRoot(cr, fr) == IF fr # None THEN fr ELSE cr

\* _resolve_file_path without the second root
resolve_file_path_primary_only(filename) ==
    IF IsAbs(filename) THEN filename ELSE Resolve(Join(core_root, filename))

\* FilesetConverter._resolve_file_path
resolve_file_path(filename) ==
    LET self_files_root == SelfFilesRoot(core_root, files_root)
        core_path == Join(core_root, filename)
        files_path == Join(self_files_root, filename)
    IN  IF IsAbs(filename) THEN filename
        ELSE IF Exists(core_path) THEN Resolve(core_path)
        ELSE IF self_files_root # core_root /\ Exists(files_path) THEN Resolve(files_path)
        ELSE Resolve(core_path)

\* a name check that looks for the key only
HasNameKey(file_info) == "name" \in DOMAIN file_info

\* `if not filename`: the name is missing (None) or the empty string
HasName(file_info) == "name" \in DOMAIN file_info /\ file_info.name # EmptyStr

\* a copy that keeps the key of the input
CopyKeySameName(file_info, k, as) ==
    IF k \in DOMAIN file_info THEN k :> file_info[k] ELSE EmptyDict

\* `if k in file_info: converted[as] = file_info[k]`
CopyKey(file_info, k, as) ==
    IF k \in DOMAIN file_info THEN as :> file_info[k] ELSE EmptyDict

\* the type lookup with the default of the line above it ('user')
mapped_type_default_user(file_type) == Get(FILE_TYPE_MAP, file_type, "user")

\* FILE_TYPE_MAP.get(file_type, file_type)
mapped_type_of(file_type) == Get(FILE_TYPE_MAP, file_type, file_type)

\* FilesetConverter._convert_file
convert_file(file_info) ==
    IF ~HasName(file_info) THEN None
    ELSE LET filename == file_info.name
             abs_path == resolve_file_path(filename)
             file_type == Get(file_info, "file_type", "user")
             mapped_type == mapped_type_of(file_type)
         IN  [path |-> abs_path, type |-> mapped_type, name |-> filename]
             @@ CopyKey(file_info, "is_include_file", "is_include")
             @@ (IF "include_path" \in DOMAIN file_info
                 THEN "include_path" :> resolve_file_path(file_info.include_path)
                 ELSE EmptyDict)
             @@ CopyKey(file_info, "logical_name", "library")
             @@ CopyKey(file_info, "copyto", "copyto")
             @@ CopyKey(file_info, "tags", "tags")

RECURSIVE convert_files(_)
\* FilesetConverter.convert_files
convert_files(fusesoc_files) ==
    IF fusesoc_files = <<>> THEN <<>>
    ELSE LET converted == convert_file(Head(fusesoc_files))
         IN  (IF converted # None /\ DOMAIN converted # {} THEN <<converted>> ELSE <<>>)
             \o convert_files(Tail(fusesoc_files))


\* the rank of a path component in Python's string order
CompRank(c) ==
    CASE c = ".." -> 0 [] c = "None" -> 1 [] c = "a.v" -> 2 [] c = "abs" -> 3
      [] c = "core" -> 4 [] c = "cwd" -> 5 [] c = "d.vh" -> 6 [] c = "files" -> 7
      [] c = "inc" -> 8 [] c = "rtl" -> 9 [] OTHER -> 10

RECURSIVE PartsLess(_, _)
PartsLess(s, t) ==
    IF s = <<>> THEN t # <<>>
    ELSE IF t = <<>> THEN FALSE
    ELSE IF Head(s) = Head(t) THEN PartsLess(Tail(s), Tail(t))
    ELSE CompRank(Head(s)) < CompRank(Head(t))

\* str(p) < str(q) for absolute paths
StrLess(p, q) == PartsLess(p.parts, q.parts)

RECURSIVE Sorted(_)
\* sorted(list(S)) for a set S of path strings
Sorted(S) ==
    IF S = {} THEN <<>>
    ELSE LET m == CHOOSE x \in S : \A y \in S \ {x} : StrLess(x, y)
         IN  <<m>> \o Sorted(S \ {m})

\* the directories of a record, those of a nameless record left out
IncludeDirsOfNamed(file_info) ==
    IF ~HasName(file_info) THEN {}
    ELSE (IF "include_path" \in DOMAIN file_info
          THEN {resolve_file_path(file_info.include_path)} ELSE {})
         \cup
         (IF Get(file_info, "is_include_file", FALSE)
          THEN {PathParent(resolve_file_path(file_info.name))} ELSE {})

\* the directories one record contributes to extract_include_dirs
IncludeDirsOf(file_info) ==
    (IF "include_path" \in DOMAIN file_info
     THEN {resolve_file_path(file_info.include_path)} ELSE {})
    \cup
    (IF Get(file_info, "is_include_file", FALSE) /\ HasName(file_info)
     THEN {PathParent(resolve_file_path(file_info.name))} ELSE {})

\* FilesetConverter.extract_include_dirs
extract_include_dirs(fusesoc_files) ==
    Sorted(UNION {IncludeDirsOf(fusesoc_files[i]) : i \in DOMAIN fusesoc_files})

-----------------------------------------------------------------------------
(* EdamBuilder: every method as a function of the descriptor it mutates *)

Str(s) == [ty |-> "str", v |-> <<s>>]
List(seq) == [ty |-> "list", v |-> seq]

\* the words of a tool's option list
Tok(s) == [s |-> s]
DirTok(d) == [dir |-> d]
JoinTok(s, d) == [s |-> s, dir |-> d]

\* dict.update as plain replacement
UpdateReplacing(d, options) == options

\* dict.update(options)
Update(d, options) == options @@ d

\* EdamBuilder.__init__
EdamBuilder(name) ==
    [name |-> name, files |-> <<>>, parameters |-> EmptyDict,
     tool_options |-> EmptyDict, flow_options |-> EmptyDict,
     toplevel |-> List(<<>>)]

\* EdamBuilder._map_file_type
type_map ==
    ("verilog" :> "verilogSource") @@
    ("systemverilog" :> "systemVerilogSource") @@
    ("vhdl" :> "vhdlSource") @@
    ("vhdl-2008" :> "vhdlSource-2008") @@
    ("constraint" :> "user") @@
    ("xdc" :> "xdc") @@
    ("sdc" :> "SDC") @@
    ("ucf" :> "UCF") @@
    ("tcl" :> "tclSource") @@
    ("user" :> "user")

\* a lookup that passes an unknown type through
map_file_type_passthrough(dv_flow_type) == Get(type_map, dv_flow_type, dv_flow_type)

map_file_type(dv_flow_type) == Get(type_map, dv_flow_type, "user")

\* Python truth of an optional attribute of a file record: a flag, a path
\* string, a plain string
TruthyFlag(file_info, k) == k \in DOMAIN file_info /\ file_info[k] = TRUE
TruthyPath(file_info, k) == k \in DOMAIN file_info /\ file_info[k] # EmptyStr
TruthyStr(file_info, k) == k \in DOMAIN file_info /\ file_info[k] # ""

\* str(None)
NoneStr == Rel(<<"None">>)

\* the record add_files appends for one input record
edam_file(file_info) ==
    [name |-> Get(file_info, "path", Get(file_info, "name", NoneStr)),
     file_type |-> map_file_type(Get(file_info, "type", "user"))]
    @@ (IF TruthyFlag(file_info, "is_include") THEN "is_include_file" :> TRUE ELSE EmptyDict)
    @@ (IF TruthyPath(file_info, "include_path")
        THEN "include_path" :> file_info.include_path ELSE EmptyDict)
    @@ (IF TruthyStr(file_info, "library")
        THEN "logical_name" :> file_info.library ELSE EmptyDict)

RECURSIVE edam_files(_)
\* the loop of add_files: one EDAM record per file, in order
edam_files(files) ==
    IF files = <<>> THEN <<>>
    ELSE <<edam_file(Head(files))>> \o edam_files(Tail(files))

\* EdamBuilder.add_files
add_files(edam, files) ==
    [edam EXCEPT !.files = @ \o edam_files(files)]

\* a set_toplevel that also takes the first file's name when given no name
set_toplevel_from_files(edam, toplevel) ==
    [edam EXCEPT !.toplevel =
        IF toplevel.ty = "list"
        THEN (IF toplevel.v # <<>> THEN Str(toplevel.v[1])
              ELSE IF edam.files # <<>> THEN Str("from_files") ELSE Str(""))
        ELSE Str(toplevel.v[1])]

\* EdamBuilder.set_toplevel
set_toplevel(edam, toplevel) ==
    [edam EXCEPT !.toplevel =
        IF toplevel.ty = "list"
        THEN (IF toplevel.v # <<>> THEN Str(toplevel.v[1]) ELSE Str(""))
        ELSE Str(toplevel.v[1])]

\* isinstance(value, dict): raw values carry a type tag, dicts do not
IsDict(value) == "ty" \notin DOMAIN value

\* an inference that asks isinstance(value, int) first: True of a bool too
infer_datatype_int_first(value) ==
    IF IsDict(value) THEN "str"
    ELSE IF value.ty \in {"int", "bool"} THEN "int"
    ELSE IF value.ty = "float" THEN "real"
    ELSE "str"

\* EdamBuilder._infer_datatype
infer_datatype(value) ==
    IF IsDict(value) THEN "str"
    ELSE IF value.ty = "bool" THEN "bool"
    ELSE IF value.ty = "int" THEN "int"
    ELSE IF value.ty = "float" THEN "real"
    ELSE "str"

\* a record that wraps every value, a typed record too
parameter_record_wrapping(value) ==
    [datatype |-> infer_datatype(value), default |-> value, paramtype |-> "vlogparam"]

\* the record add_parameters stores for one value
parameter_record(value) ==
    IF IsDict(value) THEN value
    ELSE [datatype |-> infer_datatype(value), default |-> value,
          paramtype |-> "vlogparam"]

\* EdamBuilder.add_parameters
add_parameters(edam, parameters) ==
    [edam EXCEPT !.parameters =
        Update(@, [n \in DOMAIN parameters |-> parameter_record(parameters[n])])]

\* a plusarg stored with the kind of a build-time parameter
plusarg_record_as_vlogparam(value) ==
    [datatype |-> infer_datatype(value), default |-> value, paramtype |-> "vlogparam"]

\* the record add_plusargs stores for one value
plusarg_record(value) ==
    [datatype |-> infer_datatype(value), default |-> value, paramtype |-> "plusarg"]

\* EdamBuilder.add_plusargs
add_plusargs(edam, plusargs) ==
    [edam EXCEPT !.parameters =
        Update(@, [n \in DOMAIN plusargs |-> plusarg_record(plusargs[n])])]

\* EdamBuilder.set_tool_options
set_tool_options(edam, tool, options) ==
    [edam EXCEPT !.tool_options =
        (tool :> Update(Get(@, tool, EmptyDict), options)) @@ @]

\* EdamBuilder.set_flow_options
set_flow_options(edam, options) ==
    [edam EXCEPT !.flow_options = Update(@, options)]

RECURSIVE IcarusFlags(_)
\* the words add_include_dirs extends iverilog_options with
IcarusFlags(include_dirs) ==
    IF include_dirs = <<>> THEN <<>>
    ELSE <<Tok("-I"), DirTok(Head(include_dirs))>> \o IcarusFlags(Tail(include_dirs))

\* verilator given icarus' pairs of words
VerilatorFlagsAsPairs(include_dirs) == IcarusFlags(include_dirs)

RECURSIVE VerilatorFlags(_)
\* the words add_include_dirs appends to verilator_options
VerilatorFlags(include_dirs) ==
    IF include_dirs = <<>> THEN <<>>
    ELSE <<JoinTok("-I", Head(include_dirs))>> \o VerilatorFlags(Tail(include_dirs))

\* the option name and the flags of one of the two tools add_include_dirs knows
IncludeKey(tool) == IF tool = "icarus" THEN "iverilog_options" ELSE "verilator_options"
IncludeFlags(tool, include_dirs) ==
    IF tool = "icarus" THEN IcarusFlags(include_dirs) ELSE VerilatorFlags(include_dirs)

\* one iteration of add_include_dirs' loop raises (AttributeError): the option
\* is already set to a value that is no list, and there is a flag to add
IncludeRaises(edam, tool, include_dirs) ==
    /\ include_dirs # <<>>
    /\ tool \in DOMAIN edam.tool_options
    /\ IncludeKey(tool) \in DOMAIN edam.tool_options[tool]
    /\ edam.tool_options[tool][IncludeKey(tool)].ty # "list"

\* one iteration of add_include_dirs' loop, when it does not raise
IncludeStep(edam, tool, include_dirs) ==
    LET opts == Get(edam.tool_options, tool, EmptyDict)
        cur == Get(opts, IncludeKey(tool), List(<<>>))
        new == IF include_dirs = <<>> THEN cur
               ELSE List(cur.v \o IncludeFlags(tool, include_dirs))
    IN  [edam EXCEPT !.tool_options =
            (tool :> ((IncludeKey(tool) :> new) @@ opts)) @@ @]

\* EdamBuilder.add_include_dirs raises
add_include_dirs_raises(edam, include_dirs) ==
    \/ IncludeRaises(edam, "icarus", include_dirs)
    \/ IncludeRaises(IncludeStep(edam, "icarus", include_dirs), "verilator", include_dirs)

\* EdamBuilder.add_include_dirs: the descriptor it leaves, also when it raises
add_include_dirs(edam, include_dirs) ==
    IF IncludeRaises(edam, "icarus", include_dirs) THEN edam
    ELSE LET e1 == IncludeStep(edam, "icarus", include_dirs)
         IN  IF IncludeRaises(e1, "verilator", include_dirs) THEN e1
             ELSE IncludeStep(e1, "verilator", include_dirs)

\* build() without the validation of the name
build_never_raises(edam) == FALSE

\* EdamBuilder.build raises ValueError: `if not self.edam.get('name')`
build_raises(edam) == edam.name = ""

-----------------------------------------------------------------------------
(* build_edam_from_core *)

\* edam_builder.build_edam_from_core, up to the final build(): the converter is
\* the one built from core_files' two roots
edam_from_core(core_files, toplevel, tool, parameters, plusargs) ==
    LET converted_files == convert_files(core_files.files)
        include_dirs == extract_include_dirs(core_files.files)
        b1 == add_files(EdamBuilder(core_files.name), converted_files)
        b2 == set_toplevel(b1, toplevel)
        b3 == set_flow_options(b2, [tool |-> tool])
        b4 == IF include_dirs # <<>> THEN add_include_dirs(b3, include_dirs) ELSE b3
        b5 == IF parameters # EmptyDict THEN add_parameters(b4, parameters) ELSE b4
        b6 == IF plusargs # EmptyDict THEN add_plusargs(b5, plusargs) ELSE b5
    IN  b6

-----------------------------------------------------------------------------
(* Inputs of the converter's operations *)

\* file names as FuseSoC gives them
FN_a == Rel(<<"a.v">>)
FN_rtl == Rel(<<"rtl", "a.v">>)
FN_up == Rel(<<"..", "files", "a.v">>)
FN_abs == Abs(<<"abs", "a.v">>)
FN_inc == Rel(<<"inc">>)
FN_hdr == Rel(<<"inc", "d.vh">>)

Filenames == {FN_a, FN_rtl, FN_up, FN_abs, FN_inc, FN_hdr}

\* the tags of the table and one tag that is not in it
TypeTags == DOMAIN FILE_TYPE_MAP \cup {"cppSource"}

OptField(k, S) == {EmptyDict} \cup {k :> v : v \in S}

TypeRecords == {[name |-> FN_a, file_type |-> t] : t \in TypeTags}

NameRecords == OptField("name", Filenames \cup {EmptyStr})

AttrRecords ==
    {[name |-> FN_a, file_type |-> "verilogSource"] @@ a @@ b @@ c @@ d :
        a \in OptField("is_include_file", BOOLEAN),
        b \in OptField("include_path", {FN_inc}),
        c \in OptField("logical_name", {"lib", ""}),
        d \in {EmptyDict, [copyto |-> "dst", tags |-> <<"t1">>]}}
    \cup {[is_include_file |-> TRUE, include_path |-> FN_inc]}

FullRecords == TypeRecords \cup NameRecords \cup AttrRecords

CoreRecords ==
    { [name |-> FN_a, file_type |-> "verilogSource"],
      [file_type |-> "verilogSource"],
      [name |-> FN_hdr, file_type |-> "cppSource", is_include_file |-> TRUE,
       include_path |-> FN_inc],
      [name |-> FN_rtl, file_type |-> "vhdlSource-2008", logical_name |-> "lib"] }

FileLists == {<<r>> : r \in FullRecords} \cup SeqsUpTo(CoreRecords, MaxFiles)

PyVal(ty, v) == [ty |-> ty, v |-> v]

RawValues ==
    {PyVal("bool", "True"), PyVal("int", "8"), PyVal("float", "1.5"),
     PyVal("str", "x"), PyVal("NoneType", "None")}

\* a parameter already in EDAM format
TypedRecord == [datatype |-> "int", default |-> PyVal("int", "4"), paramtype |-> "vlogdefine"]

ParamMaps ==
    {EmptyDict} \cup {"W" :> v : v \in RawValues \cup {TypedRecord}}
    \cup {("W" :> PyVal("int", "8")) @@ ("S" :> PyVal("str", "x"))}

PlusargMaps == {EmptyDict, "S" :> PyVal("int", "42"), "W" :> PyVal("bool", "True")}

DesignNames == {"", "d"}
Toplevels == {Str("top"), List(<<"top1", "top2">>), List(<<>>)}
Tools == {"icarus", "verilator", "ghdl"}

\* the arguments of build_edam_from_core besides the two roots
FromCoreArgs ==
    {[name |-> "d", files |-> fl, toplevel |-> Str("top"), tool |-> "icarus",
      parameters |-> EmptyDict, plusargs |-> EmptyDict] : fl \in FileLists}
    \cup
    [name : DesignNames, files : {<<>>}, toplevel : {Str("top")},
     tool : {"icarus", "ghdl"}, parameters : ParamMaps, plusargs : PlusargMaps]

\* the calls made on a converter
ConvCalls ==
    {[op |-> "convert_files", arg |-> fl] : fl \in FileLists}
    \cup {[op |-> "extract_include_dirs", arg |-> fl] : fl \in FileLists}
    \cup {[op |-> "resolve_file_path", arg |-> fn] : fn \in Filenames}
    \cup {[op |-> "build_edam_from_core", arg |-> a] : a \in FromCoreArgs}

-----------------------------------------------------------------------------
(* The filesystem and the roots *)

RootCore == Abs(<<"core">>)
RootRel == Rel(<<"core">>)
RootFiles == Abs(<<"files">>)

DiskFiles ==
    {<<"core", "a.v">>, <<"files", "a.v">>, <<"cwd", "core", "a.v">>,
     <<"core", "inc", "d.vh">>}

\* no link, or core/a.v is a link to files/a.v
LinkChoices(files) ==
    {EmptyDict} \cup
    (IF <<"core", "a.v">> \notin files THEN {<<"core", "a.v">> :> <<"files", "a.v">>} ELSE {})

-----------------------------------------------------------------------------
(* The converter: a call is drawn with the disk, and the action applies it *)

Pending(c) == [op |-> c.op, arg |-> c.arg, done |-> FALSE, raised |-> FALSE, ret |-> None]

Returned(c, ret) == [op |-> c.op, arg |-> c.arg, done |-> TRUE, raised |-> FALSE, ret |-> ret]

Raised(c) == [op |-> c.op, arg |-> c.arg, done |-> TRUE, raised |-> TRUE, ret |-> None]

Rundirs == {Abs(<<"r1">>), Abs(<<"r2">>)}

\* no task has run: nothing on disk, the scheduler holds no result
Idle == [task |-> "none"]

NoTasks ==
    /\ work_dirs = {}
    /\ configured = [r \in Rundirs |-> NoneS]
    /\ task_call = Idle
    /\ backend = None

\* the builder before any call: EdamBuilder(name) holds a fresh dict
BuilderCreated(name) ==
    /\ heap = [r \in {1} |-> EdamBuilder(name)]
    /\ self_edam = 1
    /\ build_ret = [kind |-> "none"]
    /\ snapshot = None
    /\ last_call = [op |-> "__init__", arg |-> name, raised |-> FALSE]
    /\ ncalls = 0

InitConv ==
    /\ core_root \in {RootCore, RootRel}
    /\ files_root \in {None, RootFiles, core_root}
    /\ fs_files \in SUBSET DiskFiles
    /\ symlinks \in LinkChoices(fs_files)
    /\ \E c \in ConvCalls : conv_call = Pending(c)
    /\ BuilderCreated("d")
    /\ NoTasks

ConvFrame == UNCHANGED <<core_root, files_root, fs_files, symlinks, bldVars, taskVars>>

ConvertFiles ==
    /\ conv_call.op = "convert_files" /\ ~conv_call.done
    /\ conv_call' = Returned(conv_call, convert_files(conv_call.arg))
    /\ ConvFrame

ExtractIncludeDirs ==
    /\ conv_call.op = "extract_include_dirs" /\ ~conv_call.done
    /\ conv_call' = Returned(conv_call, extract_include_dirs(conv_call.arg))
    /\ ConvFrame

ResolveFilePath ==
    /\ conv_call.op = "resolve_file_path" /\ ~conv_call.done
    /\ conv_call' = Returned(conv_call, resolve_file_path(conv_call.arg))
    /\ ConvFrame

\* build_edam_from_core(core_files, ...) with core_files' roots the two roots
\* of the state; both are given (files_root is never None here)
BuildEdamFromCore ==
    /\ conv_call.op = "build_edam_from_core" /\ ~conv_call.done
    /\ files_root # None
    /\ LET a == conv_call.arg
           edam == edam_from_core(a, a.toplevel, a.tool, a.parameters, a.plusargs)
       IN  conv_call' = IF build_raises(edam) THEN Raised(conv_call)
                        ELSE Returned(conv_call, edam)
    /\ ConvFrame

NextConv == ConvertFiles \/ ExtractIncludeDirs \/ ResolveFilePath \/ BuildEdamFromCore

SpecConv == InitConv /\ [][NextConv]_vars

-----------------------------------------------------------------------------
(* One EdamBuilder: the methods called on it, in any order *)

\* file records in DV Flow format, as the converter and the callers give them
DvFile1 == [path |-> Abs(<<"core", "a.v">>), type |-> "verilog", name |-> FN_a]
DvFile2 ==
    [name |-> FN_hdr, type |-> "systemverilog", is_include |-> TRUE,
     include_path |-> Abs(<<"core", "inc">>), library |-> "lib"]

\* a record with no type and no path whose optional attributes are all falsy,
\* and one of a type the builder's table does not know
DvFile3 ==
    [name |-> FN_a, is_include |-> FALSE, include_path |-> EmptyStr, library |-> ""]
DvFile4 == [path |-> Abs(<<"core", "m.cpp">>), type |-> "cppSource"]

DvFileLists == {<<>>, <<DvFile2, DvFile1>>, <<DvFile3, DvFile4>>}

Dir1 == Abs(<<"core", "inc">>)
Dir2 == Rel(<<"inc">>)
IncludeDirLists == {<<>>, <<Dir1>>, <<Dir1, Dir2>>}

\* a string as the value of a tool option
OptStr(s) == [ty |-> "str", v |-> <<Tok(s)>>]

ToolOptionMaps ==
    { [iverilog_options |-> List(<<Tok("-g2012")>>)],
      [iverilog_options |-> OptStr("-g2012")],
      [timescale |-> OptStr("1ns/1ps")] }

FlowOptionMaps == {[tool |-> "icarus"], [tool |-> "verilator"], [target |-> "sim"]}

InitBuilder ==
    /\ core_root = RootCore
    /\ files_root = None
    /\ fs_files = {}
    /\ symlinks = EmptyDict
    /\ conv_call = Returned([op |-> "none", arg |-> None], None)
    /\ \E name \in DesignNames : BuilderCreated(name)
    /\ NoTasks

\* a method that returns self after mutating self.edam in place
Mutate(op, arg, edam, raised) ==
    /\ ncalls < MaxCalls
    /\ heap' = [heap EXCEPT ![self_edam] = edam]
    /\ last_call' = [op |-> op, arg |-> arg, raised |-> raised]
    /\ ncalls' = ncalls + 1
    /\ UNCHANGED <<self_edam, build_ret, snapshot, convVars, taskVars>>

AddFiles ==
    \E files \in DvFileLists :
        Mutate("add_files", files, add_files(heap[self_edam], files), FALSE)

SetToplevel ==
    \E toplevel \in Toplevels :
        Mutate("set_toplevel", toplevel, set_toplevel(heap[self_edam], toplevel), FALSE)

AddParameters ==
    \E parameters \in ParamMaps :
        Mutate("add_parameters", parameters,
               add_parameters(heap[self_edam], parameters), FALSE)

AddPlusargs ==
    \E plusargs \in PlusargMaps :
        Mutate("add_plusargs", plusargs, add_plusargs(heap[self_edam], plusargs), FALSE)

SetToolOptions ==
    \E tool \in {"icarus", "ghdl"}, options \in ToolOptionMaps :
        Mutate("set_tool_options", <<tool, options>>,
               set_tool_options(heap[self_edam], tool, options), FALSE)

SetFlowOptions ==
    \E options \in FlowOptionMaps :
        Mutate("set_flow_options", options,
               set_flow_options(heap[self_edam], options), FALSE)

AddIncludeDirs ==
    \E include_dirs \in IncludeDirLists :
        Mutate("add_include_dirs", include_dirs,
               add_include_dirs(heap[self_edam], include_dirs),
               add_include_dirs_raises(heap[self_edam], include_dirs))

\* EdamBuilder.build: raises, or returns self.edam, the dict itself and no copy
Build ==
    /\ ncalls < MaxCalls
    /\ last_call' = [op |-> "build", arg |-> None, raised |-> build_raises(heap[self_edam])]
    /\ ncalls' = ncalls + 1
    /\ IF build_raises(heap[self_edam])
       THEN build_ret' = [kind |-> "raised"] /\ snapshot' = None
       ELSE build_ret' = [kind |-> "ref", ref |-> self_edam]
            /\ snapshot' = heap[self_edam]
    /\ UNCHANGED <<heap, self_edam, convVars, taskVars>>

NextBuilder ==
    \/ AddFiles \/ SetToplevel \/ AddParameters \/ AddPlusargs
    \/ SetToolOptions \/ SetFlowOptions \/ AddIncludeDirs \/ Build

SpecBuilder == InitBuilder /\ [][NextBuilder]_vars

-----------------------------------------------------------------------------
(* EdalizeBackend.  What the wrapped Edalize flow does is the environment's  *)
(* choice: fail_at names the call into it that raises, if any.               *)

\* an instantiated flow, the value of EdalizeBackend.flow after flow_class(...)
FlowObj == [obj |-> "flow"]

\* EdalizeBackend.__init__, up to the mkdir of work_root
EdalizeBackend(flow_class, edam, work_root) ==
    [flow_class |-> flow_class, edam |-> edam, work_root |-> work_root, flow |-> None]

\* a configure that tries flow.configure() a second time when it raises
EdalizeBackend_configure_retrying(self, fail_at) ==
    IF fail_at = "flow_init"
    THEN [self |-> self, ret |-> FALSE, occurred |-> "flow_init",
          calls |-> <<"flow_class()">>]
    ELSE IF fail_at = "flow_configure"
    THEN [self |-> [self EXCEPT !.flow = FlowObj], ret |-> FALSE,
          occurred |-> "flow_configure",
          calls |-> <<"flow_class()", "flow.configure()", "flow.configure()">>]
    ELSE [self |-> [self EXCEPT !.flow = FlowObj], ret |-> TRUE, occurred |-> "none",
          calls |-> <<"flow_class()", "flow.configure()">>]

\* EdalizeBackend.configure: both calls into the flow are inside its try
EdalizeBackend_configure(self, fail_at) ==
    IF fail_at = "flow_init"
    THEN [self |-> self, ret |-> FALSE, occurred |-> "flow_init",
          calls |-> <<"flow_class()">>]
    ELSE IF fail_at = "flow_configure"
    THEN [self |-> [self EXCEPT !.flow = FlowObj], ret |-> FALSE,
          occurred |-> "flow_configure",
          calls |-> <<"flow_class()", "flow.configure()">>]
    ELSE [self |-> [self EXCEPT !.flow = FlowObj], ret |-> TRUE, occurred |-> "none",
          calls |-> <<"flow_class()", "flow.configure()">>]

\* EdalizeBackend.get_tool
get_tool(self) ==
    IF self.flow # None
    THEN Get(Get(self.edam, "flow_options", EmptyDict), "tool", NoneS)
    ELSE NoneS

\* EdalizeBackend._check_build_success: artifacts tells what is in work_root
check_build_success(self, artifacts) ==
    LET tool == get_tool(self)
    IN  IF tool = "icarus" THEN artifacts.simv \/ artifacts.vvp
        ELSE IF tool = "verilator" THEN artifacts.obj_dir_exe
        ELSE TRUE

\* EdalizeBackend._check_run_success
check_run_success(self) == TRUE

\* EdalizeBackend.build
EdalizeBackend_build(self, fail_at, artifacts) ==
    IF self.flow = None
    THEN [ret |-> FALSE, msg |-> "Flow not configured. Call configure() first.",
          occurred |-> "none", calls |-> <<>>]
    ELSE IF fail_at = "flow_build"
    THEN [ret |-> FALSE, msg |-> "Build failed", occurred |-> "flow_build",
          calls |-> <<"flow.build()">>]
    ELSE [ret |-> check_build_success(self, artifacts), msg |-> "Build completed",
          occurred |-> "none", calls |-> <<"flow.build()">>]

\* EdalizeBackend.run
EdalizeBackend_run(self, fail_at) ==
    IF self.flow = None
    THEN [ret |-> FALSE, msg |-> "Flow not configured. Call configure() first.",
          occurred |-> "none", calls |-> <<>>]
    ELSE IF fail_at = "flow_run"
    THEN [ret |-> FALSE, msg |-> "Run failed", occurred |-> "flow_run",
          calls |-> <<"flow.run()">>]
    ELSE [ret |-> check_run_success(self), msg |-> "Run completed",
          occurred |-> "none", calls |-> <<"flow.run()">>]

-----------------------------------------------------------------------------
(* The task wrappers.  Each is a try body followed by `except Exception`.   *)

Marker(severity, msg) == [severity |-> severity, msg |-> msg]

TaskDataResult(changed, output, markers, status, memento) ==
    [changed |-> changed, output |-> output, markers |-> markers,
     status |-> status, memento |-> memento]

\* a status that does not look at the success flag
status_always_0(success) == 0

\* `status=0 if success else 1`
status_of(success) == IF success THEN 0 ELSE 1

\* the rundir itself as the work directory
WorkRootIsRundir(rundir) == rundir

\* Path(input.rundir) / "sim_work"
WorkRoot(rundir) == Join(rundir, Rel(<<"sim_work">>))

\* a task invocation as it enters its try
Enter(task, params, rundir) ==
    [task |-> task, params |-> params, rundir |-> rundir,
     raised |-> FALSE,          \* an exception left the try body
     occurred |-> "none",       \* the step at which an exception was raised
     calls |-> <<>>,            \* the calls made outside this repository, in order
     backend_edam |-> None,     \* the descriptor handed to EdalizeBackend
     seen |-> "unread",         \* the descriptor file SimBuild found
     artifacts |-> None,        \* what SimBuild's flow left in work_root
     manager |-> None,          \* the FuseSoCManager CoreResolve created
     made |-> {},               \* the directories created
     markers |-> <<>>,          \* the markers collected so far
     result |-> None,           \* the TaskDataResult returned
     propagated |-> FALSE]      \* an exception left the wrapper

\* the handler that lets the builder's ValueError through
Catch_external_only(call, msg) ==
    IF ~call.raised THEN call
    ELSE IF call.occurred = "builder" THEN [call EXCEPT !.propagated = TRUE]
    ELSE [call EXCEPT !.result = TaskDataResult(FALSE, <<>>,
                          Append(call.markers, Marker("Error", msg)), 1, None)]

\* a handler that reports the failure in the status only
Catch_silent(call, msg) ==
    IF ~call.raised THEN call
    ELSE [call EXCEPT !.result = TaskDataResult(FALSE, <<>>, call.markers, 1, None)]

\* `except Exception as e`: one Error marker, no output, status 1
Catch(call, msg) ==
    IF ~call.raised THEN call
    ELSE [call EXCEPT !.result = TaskDataResult(FALSE, <<>>,
                          Append(call.markers, Marker("Error", msg)), 1, None)]

\* the descriptor SimConfigure builds from its parameters (lines 115-130)
configure_edam(params) ==
    LET b1 == add_files(EdamBuilder(params.core_name), params.files)
        b2 == set_toplevel(b1, Str(params.toplevel))
        b3 == set_flow_options(b2, [tool |-> params.tool])
        b4 == IF params.include_dirs # <<>>
              THEN add_include_dirs(b3, params.include_dirs) ELSE b3
        b5 == IF params.parameters # EmptyDict
              THEN add_parameters(b4, params.parameters) ELSE b4
        b6 == IF params.plusargs # EmptyDict THEN add_plusargs(b5, params.plusargs) ELSE b5
        b7 == IF params.tool_options # EmptyDict
              THEN set_tool_options(b6, params.tool, params.tool_options) ELSE b6
    IN  b7

\* the try body of SimConfigure
SimConfigure_try(params, rundir, fail_at) ==
    LET call == Enter("SimConfigure", params, rundir)
        edam == configure_edam(params)
        work_root == WorkRoot(rundir)
    IN  IF build_raises(edam)
        THEN [call EXCEPT !.raised = TRUE, !.occurred = "builder"]
        ELSE IF fail_at = "import"
        THEN [call EXCEPT !.raised = TRUE, !.occurred = "import",
                          !.calls = <<"import Sim">>]
        ELSE IF fail_at = "mkdir"
        THEN [call EXCEPT !.raised = TRUE, !.occurred = "mkdir",
                          !.calls = <<"import Sim", "mkdir">>, !.backend_edam = edam]
        ELSE LET cfg == EdalizeBackend_configure(
                            EdalizeBackend("Sim", edam, work_root), fail_at)
                 success == cfg.ret
                 markers == IF success THEN <<Marker("Info", "Configured simulation")>>
                            ELSE <<Marker("Error", "Failed to configure simulation")>>
                 output == [work_root |-> work_root, tool |-> params.tool,
                            configured |-> success]
             IN  [call EXCEPT !.occurred = cfg.occurred,
                              !.calls = <<"import Sim", "mkdir">> \o cfg.calls,
                              !.backend_edam = edam,
                              !.made = {work_root},
                              !.markers = markers,
                              !.result = TaskDataResult(TRUE, <<output>>, markers,
                                                        status_of(success), None)]

\* what Edalize may have left in a descriptor file: a descriptor of the design
PersistedEdam == set_flow_options(EdamBuilder("d"), [tool |-> "icarus"])

\* the file SimBuild opens: "<tool>.edam" when it exists, else "edam.json"
chosen_file(tool_edam, edam_json) == IF tool_edam # "missing" THEN tool_edam ELSE edam_json

\* a read that substitutes the empty descriptor for a file it cannot parse
read_descriptor_lenient(tool_edam, edam_json) ==
    [raised |-> FALSE,
     edam |-> IF chosen_file(tool_edam, edam_json) = "valid"
              THEN PersistedEdam ELSE EmptyDict]

\* SimBuild lines 208-218: json.load raises on a malformed file; no file gives {}
read_descriptor(tool_edam, edam_json) ==
    [raised |-> chosen_file(tool_edam, edam_json) = "malformed",
     edam |-> IF chosen_file(tool_edam, edam_json) = "valid"
              THEN PersistedEdam ELSE EmptyDict]

\* the try body of SimBuild
SimBuild_try(params, rundir, fail_at, tool_edam, edam_json, artifacts) ==
    LET call == [Enter("SimBuild", params, rundir) EXCEPT !.calls = <<"import Sim">>,
                                                          !.artifacts = artifacts]
        work_root == params.work_root
        rd == read_descriptor(tool_edam, edam_json)
        seen == chosen_file(tool_edam, edam_json)
    IN  IF fail_at = "import"
        THEN [call EXCEPT !.raised = TRUE, !.occurred = "import"]
        ELSE IF rd.raised
        THEN [call EXCEPT !.raised = TRUE, !.occurred = "read", !.seen = seen]
        ELSE IF fail_at = "mkdir"
        THEN [call EXCEPT !.raised = TRUE, !.occurred = "mkdir", !.seen = seen,
                          !.calls = @ \o <<"mkdir">>, !.backend_edam = rd.edam]
        ELSE LET b == EdalizeBackend_build(
                          EdalizeBackend("Sim", rd.edam, work_root), fail_at, artifacts)
                 build_success == b.ret
                 markers == IF build_success
                            THEN <<Marker("Info", "Build completed successfully")>>
                            ELSE <<Marker("Error", "Build failed")>>
                 output == [work_root |-> work_root, build_success |-> build_success,
                            executable |-> NoneS]
             IN  [call EXCEPT !.occurred = b.occurred, !.seen = seen,
                              !.calls = @ \o <<"mkdir", "EdalizeBackend.build()">> \o b.calls,
                              !.backend_edam = rd.edam,
                              !.made = {work_root},
                              !.markers = markers,
                              !.result = TaskDataResult(TRUE, <<output>>, markers,
                                                        status_of(build_success), None)]

\* the try body of SimRun: log_files is what get_log_files() globs in work_root
SimRun_try(params, rundir, fail_at, log_files) ==
    LET call == [Enter("SimRun", params, rundir) EXCEPT !.calls = <<"import Sim">>]
        work_root == params.work_root
    IN  IF fail_at = "import"
        THEN [call EXCEPT !.raised = TRUE, !.occurred = "import"]
        ELSE IF fail_at = "mkdir"
        THEN [call EXCEPT !.raised = TRUE, !.occurred = "mkdir",
                          !.calls = @ \o <<"mkdir">>, !.backend_edam = EmptyDict]
        ELSE LET r == EdalizeBackend_run(
                          EdalizeBackend("Sim", EmptyDict, work_root), fail_at)
                 run_success == r.ret
                 markers == IF run_success
                            THEN <<Marker("Info", "Simulation completed successfully")>>
                            ELSE <<Marker("Error", "Simulation failed")>>
                 output == [work_root |-> work_root, run_success |-> run_success,
                            log_file |-> IF log_files # <<>> THEN log_files[1] ELSE NoneS]
             IN  [call EXCEPT !.occurred = r.occurred,
                              !.calls = @ \o <<"mkdir", "EdalizeBackend.run()">> \o r.calls,
                              !.backend_edam = EmptyDict,
                              !.made = {work_root},
                              !.markers = markers,
                              !.result = TaskDataResult(TRUE, <<output>>, markers,
                                                        status_of(run_success), None)]

\* FuseSoCManager(): no config_dir, no data_dir
FuseSoCManager == [config_dir |-> None, data_dir |-> None, libraries |-> {}]

\* the steps of CoreResolve that call FuseSoC or the disk, in order
ResolveSteps(params) ==
    <<"mkdir", "FuseSoCManager()">>
    \o (IF params.libraries # EmptyDict THEN <<"add_library">> ELSE <<>>)
    \o <<"resolve_core", "get_core_files", "get_dependencies">>

\* the position of step x in the sequence steps (0 when it is none of them)
IndexOf(steps, x) ==
    IF \E i \in 1..Len(steps) : steps[i] = x
    THEN CHOOSE i \in 1..Len(steps) : steps[i] = x
    ELSE 0

\* a memento that forgets the flags of the request
CoreResolveMemento_no_flags(params, core_name) ==
    [core |-> params.core, target |-> NoneS, tool |-> NoneS,
     core_name |-> core_name, last_resolution |-> "time.time()"]

\* CoreResolveMemento(...).model_dump(), lines 156-163
CoreResolveMemento(params, core_name) ==
    [core |-> params.core, target |-> params.target, tool |-> params.tool,
     core_name |-> core_name, last_resolution |-> "time.time()"]

\* the try body of CoreResolve: core_files is what FuseSoC knows of the core
CoreResolve_try(params, rundir, fail_at, core_files) ==
    LET call == Enter("CoreResolve", params, rundir)
        workspace == IF params.workspace # None THEN params.workspace
                     ELSE Join(rundir, Rel(<<"fusesoc_workspace">>))
        steps == ResolveSteps(params)
        k == IndexOf(steps, fail_at)
        manager == [FuseSoCManager EXCEPT !.libraries = DOMAIN params.libraries]
        resolved == Marker("Info", <<"Resolved core: ", core_files.name>>)
        extracted == Marker("Info", <<"Extracted files from core: ",
                                      Len(convert_files(core_files.files))>>)
    IN  IF k > 0
        THEN [call EXCEPT !.raised = TRUE, !.occurred = fail_at,
                          !.calls = SubSeq(steps, 1, k),
                          !.made = IF k > 1 THEN {workspace} ELSE {},
                          !.manager = IF k > 3 \/ (k = 3 /\ fail_at # "add_library")
                                      THEN manager
                                      ELSE IF k > 2 THEN FuseSoCManager ELSE None,
                          !.markers = IF fail_at \in {"get_core_files", "get_dependencies"}
                                      THEN <<resolved>> \o
                                           (IF fail_at = "get_dependencies"
                                            THEN <<extracted>>
                                            ELSE <<>>)
                                      ELSE <<>>]
        ELSE LET converted_files == convert_files(core_files.files)
                 include_dirs == extract_include_dirs(core_files.files)
                 markers == <<resolved, extracted>>
                 output == [core_name |-> core_files.name,
                            core_root |-> core_files.core_root,
                            files_root |-> core_files.files_root,
                            files |-> converted_files,
                            dependencies |-> core_files.dependencies,
                            parameters |-> core_files.parameters,
                            include_dirs |-> include_dirs]
                 memento == CoreResolveMemento(params, core_files.name)
             IN  [call EXCEPT !.calls = steps,
                              !.made = {workspace},
                              !.manager = manager,
                              !.markers = markers,
                              !.result = TaskDataResult(TRUE, <<output>>, markers, 0, memento)]

-----------------------------------------------------------------------------
(* The tasks as the scheduler runs them, one at a time *)

SimTools == {"icarus", "verilator"}

BaseConfigure ==
    [core_name |-> "d", files |-> <<DvFile1>>, include_dirs |-> <<>>,
     toplevel |-> "top", tool |-> "icarus", parameters |-> EmptyDict,
     plusargs |-> EmptyDict, tool_options |-> EmptyDict]

\* the requests to SimConfigure: the design, the include flags, the parameters
SimConfigureParams ==
    {[BaseConfigure EXCEPT !.core_name = n, !.files = f, !.tool = t] :
        n \in DesignNames, f \in DvFileLists, t \in Tools}
    \cup
    {[BaseConfigure EXCEPT !.include_dirs = d, !.tool = t, !.tool_options = o] :
        d \in IncludeDirLists, t \in SimTools, o \in ToolOptionMaps \cup {EmptyDict}}
    \cup
    {[BaseConfigure EXCEPT !.parameters = p, !.plusargs = a] :
        p \in ParamMaps, a \in PlusargMaps}

ConfigureFailures == {"none", "import", "mkdir", "flow_init", "flow_configure"}
BuildFailures == {"none", "import", "mkdir", "flow_build"}
RunFailures == {"none", "import", "mkdir", "flow_run"}
FileStates == {"missing", "valid", "malformed"}
Artifacts == {[simv |-> b, vvp |-> FALSE, obj_dir_exe |-> b] : b \in BOOLEAN}

CoreResolveParams ==
    [core : {"v:l:core:1.0", "nonexistent"},
     target : {NoneS, "sim"}, tool : {NoneS, "icarus"},
     libraries : {EmptyDict, [lib |-> Abs(<<"libs">>)]},
     workspace : {None, Abs(<<"ws">>)}]

\* what FuseSoC returns for the core that exists: its roots are the two roots
\* of the converter, its files one of a few lists
CoreFilesOf(params, files) ==
    [files |-> files, name |-> params.core, core_root |-> core_root,
     files_root |-> files_root, dependencies |-> <<"v:l:dep:1.0">>,
     parameters |-> EmptyDict]

InitTasks ==
    /\ core_root = RootCore
    /\ files_root = RootFiles
    /\ fs_files = {<<"core", "a.v">>}
    /\ symlinks = EmptyDict
    /\ conv_call = Returned([op |-> "none", arg |-> None], None)
    /\ BuilderCreated("d")
    /\ NoTasks

TaskFrame == UNCHANGED <<convVars, bldVars, backend>>

\* the call returns to the scheduler; what it created stays on disk
Finish(call) ==
    /\ task_call' = call
    /\ work_dirs' = work_dirs \cup call.made
    /\ TaskFrame

CoreResolve ==
    /\ task_call = Idle
    /\ \E params \in CoreResolveParams,
          fail_at \in {"none", "mkdir", "FuseSoCManager()", "add_library",
                       "resolve_core", "get_core_files", "get_dependencies"},
          files \in SeqsUpTo(CoreRecords, 1) :
          \* a core FuseSoC does not know is not resolved
          /\ params.core = "nonexistent" =>
                 fail_at \in {"mkdir", "FuseSoCManager()", "add_library", "resolve_core"}
          /\ fail_at = "add_library" => params.libraries # EmptyDict
          /\ Finish(Catch(CoreResolve_try(params, Abs(<<"r1">>), fail_at,
                                          CoreFilesOf(params, files)),
                          "Core resolution failed"))
    /\ UNCHANGED configured

SimConfigure ==
    /\ task_call = Idle
    /\ \E params \in SimConfigureParams, rundir \in Rundirs,
          fail_at \in ConfigureFailures :
          LET call == Catch(SimConfigure_try(params, rundir, fail_at),
                            "Configuration failed")
          IN  /\ Finish(call)
              /\ configured' =
                    IF call.result # None /\ call.result.status = 0
                    THEN [configured EXCEPT ![rundir] = params.tool]
                    ELSE configured

SimBuild ==
    /\ task_call = Idle
    /\ \E rundir \in Rundirs, tool \in SimTools, fail_at \in BuildFailures,
          tool_edam \in FileStates, edam_json \in FileStates, artifacts \in Artifacts :
          \* a file is in work_root only if work_root is on disk
          /\ WorkRoot(rundir) \notin work_dirs =>
                 (tool_edam = "missing" /\ edam_json = "missing")
          /\ Finish(Catch(SimBuild_try([work_root |-> WorkRoot(rundir), tool |-> tool],
                                       rundir, fail_at, tool_edam, edam_json, artifacts),
                          "Build failed"))
    /\ UNCHANGED configured

SimRun ==
    /\ task_call = Idle
    /\ \E rundir \in Rundirs, tool \in SimTools, fail_at \in RunFailures,
          log_files \in {<<>>, <<"sim.log">>} :
          /\ WorkRoot(rundir) \notin work_dirs => log_files = <<>>
          /\ Finish(Catch(SimRun_try([work_root |-> WorkRoot(rundir), tool |-> tool,
                                      runtime_plusargs |-> EmptyDict],
                                     rundir, fail_at, log_files),
                          "Simulation failed"))
    /\ UNCHANGED configured

\* the scheduler takes the result; the next task may start
TakeResult ==
    /\ task_call # Idle
    /\ task_call' = Idle
    /\ UNCHANGED <<work_dirs, configured>>
    /\ TaskFrame

NextTasks == CoreResolve \/ SimConfigure \/ SimBuild \/ SimRun \/ TakeResult

SpecTasks == InitTasks /\ [][NextTasks]_vars

-----------------------------------------------------------------------------
(* One EdalizeBackend and the calls made on it, as the integration tests do *)

\* the descriptors a backend is constructed with
BackendEdams ==
    {configure_edam([BaseConfigure EXCEPT !.tool = t]) : t \in SimTools} \cup {EmptyDict}

\* EdalizeBackend(Sim, edam, work_root): __init__ has made work_root
InitBackend ==
    /\ core_root = RootCore
    /\ files_root = RootFiles
    /\ fs_files = {<<"core", "a.v">>}
    /\ symlinks = EmptyDict
    /\ conv_call = Returned([op |-> "none", arg |-> None], None)
    /\ BuilderCreated("d")
    /\ configured = [r \in Rundirs |-> NoneS]
    /\ task_call = Idle
    /\ \E edam \in BackendEdams, rundir \in Rundirs :
           /\ backend = [obj |-> EdalizeBackend("Sim", edam, WorkRoot(rundir)),
                         log |-> <<>>]
           /\ work_dirs = {WorkRoot(rundir)}

\* backend.configure()
BackendConfigure ==
    /\ Len(backend.log) < MaxCalls
    /\ \E fail_at \in {"none", "flow_init", "flow_configure"} :
           LET cfg == EdalizeBackend_configure(backend.obj, fail_at)
           IN  backend' = [obj |-> cfg.self,
                           log |-> Append(backend.log,
                                          [op |-> "configure", ret |-> cfg.ret,
                                           calls |-> cfg.calls])]
    /\ UNCHANGED <<convVars, bldVars, work_dirs, configured, task_call>>

\* backend.build()
BackendBuild ==
    /\ Len(backend.log) < MaxCalls
    /\ \E fail_at \in {"none", "flow_build"}, artifacts \in Artifacts :
           LET r == EdalizeBackend_build(backend.obj, fail_at, artifacts)
           IN  backend' = [backend EXCEPT
                              !.log = Append(@, [op |-> "build", ret |-> r.ret,
                                                 calls |-> r.calls])]
    /\ UNCHANGED <<convVars, bldVars, work_dirs, configured, task_call>>

\* backend.run()
BackendRun ==
    /\ Len(backend.log) < MaxCalls
    /\ \E fail_at \in {"none", "flow_run"} :
           LET r == EdalizeBackend_run(backend.obj, fail_at)
           IN  backend' = [backend EXCEPT
                              !.log = Append(@, [op |-> "run", ret |-> r.ret,
                                                 calls |-> r.calls])]
    /\ UNCHANGED <<convVars, bldVars, work_dirs, configured, task_call>>

NextBackend == BackendConfigure \/ BackendBuild \/ BackendRun

SpecBackend == InitBackend /\ [][NextBackend]_vars

-----------------------------------------------------------------------------
(* Claims about the converter, checked under SpecConv *)

ConvDone(op) == conv_call.op = op /\ conv_call.done

\* the input records that have a name, in input order
Named(fusesoc_files) == SelectSeq(fusesoc_files, HasName)

\* C1: convert_files gives every input record whose file_type is a key of the
\* table the table's target as its type, and every record whose file_type is
\* not a key its file_type unchanged.
C1_TypeMapping ==
    ConvDone("convert_files") =>
        LET named == Named(conv_call.arg)
            ret == conv_call.ret
        IN  /\ Len(ret) = Len(named)
            /\ \A i \in 1..Len(named) :
                  "file_type" \in DOMAIN named[i] =>
                      LET t == named[i].file_type
                      IN  IF t \in DOMAIN FILE_TYPE_MAP
                          THEN ret[i].type = FILE_TYPE_MAP[t]
                          ELSE ret[i].type = t

\* a conversion whose output holds a retagged record and a passed-through one
C1_Witness ==
    /\ ConvDone("convert_files")
    /\ \E i, j \in 1..Len(conv_call.ret) :
          /\ Get(Named(conv_call.arg)[i], "file_type", "") = "vhdlSource-2008"
          /\ conv_call.ret[i].type = "vhdl"
          /\ Get(Named(conv_call.arg)[j], "file_type", "") = "cppSource"
          /\ conv_call.ret[j].type = "cppSource"

\* p lies in the directory root (or is it), root taken canonically
Under(p, root) == p.abs /\ IsPrefix(Resolve(root).parts, p.parts)

\* no component of p, made absolute, is a symbolic link
NoLinkOn(p) ==
    \A k \in 1..Len(Absolute(p)) : SubSeq(Absolute(p), 1, k) \notin DOMAIN symlinks

\* a relative file name with no ".." that reaches no link under either root
Plain(filename) ==
    /\ ~filename.abs
    /\ \A k \in 1..Len(filename.parts) : filename.parts[k] # ".."
    /\ NoLinkOn(Join(core_root, filename))
    /\ NoLinkOn(Join(SelfFilesRoot(core_root, files_root), filename))

\* the three cases of the path resolution, for the result ret of filename
ThreeCases(filename, ret) ==
    LET secondary == SelfFilesRoot(core_root, files_root)
    IN  IF Exists(Join(core_root, filename)) THEN Under(ret, core_root)
        ELSE IF Exists(Join(secondary, filename)) THEN Under(ret, secondary)
        ELSE Under(ret, core_root) /\ ~Exists(ret)

\* C2 as stated: for any file name, the resolved path is under the primary
\* root if the file exists there, else under the secondary root if it exists
\* there, else it is the non-existent primary-root path; no error is raised.
C2_AnyFilename ==
    ConvDone("resolve_file_path") =>
        ~conv_call.raised /\ ThreeCases(conv_call.arg, conv_call.ret)

\* C2 amended: the three cases hold for every relative file name that has no
\* ".." component and reaches no symbolic link; an absolute file name is
\* returned as given; no error is raised.
C2_PlainFilename ==
    ConvDone("resolve_file_path") =>
        /\ ~conv_call.raised
        /\ Plain(conv_call.arg) => ThreeCases(conv_call.arg, conv_call.ret)
        /\ conv_call.arg.abs => conv_call.ret = conv_call.arg

\* a file found under the secondary root only
C2_Witness ==
    /\ ConvDone("resolve_file_path")
    /\ Plain(conv_call.arg)
    /\ files_root # None /\ files_root # core_root
    /\ ~Exists(Join(core_root, conv_call.arg))
    /\ Exists(Join(files_root, conv_call.arg))
    /\ Under(conv_call.ret, files_root)

\* C3: every tag of FilesetConverter's table, mapped to its DV Flow type and
\* mapped back by EdamBuilder's table (as build_edam_from_core does), is the
\* tag again.
C3_RoundTrip ==
    (ConvDone("build_edam_from_core") /\ ~conv_call.raised) =>
        LET named == Named(conv_call.arg.files)
            files == conv_call.ret.files
        IN  \A i \in 1..Len(named) :
                ("file_type" \in DOMAIN named[i]
                 /\ named[i].file_type \in DOMAIN FILE_TYPE_MAP)
                => files[i].file_type = named[i].file_type

\* the record has no name: the key is missing or its value is the empty string
LacksName(r) == "name" \notin DOMAIN r \/ r.name = EmptyStr

RECURSIVE NamesKept(_)
\* the names of the records that have one, in input order
NamesKept(fusesoc_files) ==
    IF fusesoc_files = <<>> THEN <<>>
    ELSE (IF LacksName(Head(fusesoc_files)) THEN <<>> ELSE <<Head(fusesoc_files).name>>)
         \o NamesKept(Tail(fusesoc_files))

\* C12: convert_files returns, without raising, one record for each input
\* record that has a name, in input order, and nothing for a record whose name
\* is missing or empty.
C12_NamelessDropped ==
    ConvDone("convert_files") =>
        /\ ~conv_call.raised
        /\ Len(conv_call.ret) = Len(NamesKept(conv_call.arg))
        /\ \A i \in 1..Len(conv_call.ret) :
               conv_call.ret[i].name = NamesKept(conv_call.arg)[i]

\* a list with a nameless record before a named one, converted
C12_Witness ==
    /\ ConvDone("convert_files")
    /\ Len(conv_call.arg) = 2
    /\ LacksName(conv_call.arg[1])
    /\ ~LacksName(conv_call.arg[2])
    /\ Len(conv_call.ret) = 1
    /\ conv_call.ret[1].name = conv_call.arg[2].name

RECURSIVE RecordsKept(_)
\* the input records that have a name, in input order
RecordsKept(fusesoc_files) ==
    IF fusesoc_files = <<>> THEN <<>>
    ELSE (IF LacksName(Head(fusesoc_files)) THEN <<>> ELSE <<Head(fusesoc_files)>>)
         \o RecordsKept(Tail(fusesoc_files))

\* the attribute is in both records with one value, or in neither
SameAttr(in, k, out, as) ==
    IF k \in DOMAIN in THEN as \in DOMAIN out /\ out[as] = in[k]
    ELSE as \notin DOMAIN out

\* the include flag, the library, the copy destination and the tag set
CopiedVerbatim(in, out) ==
    /\ SameAttr(in, "is_include_file", out, "is_include")
    /\ SameAttr(in, "logical_name", out, "library")
    /\ SameAttr(in, "copyto", out, "copyto")
    /\ SameAttr(in, "tags", out, "tags")

\* C13, as stated: in the output of convert_files the include flag, the include
\* path, the library, the copy destination and the tag set of every named
\* record equal the input's, and an attribute absent from the input is absent
\* from the output.
C13_AttributesUnchanged ==
    ConvDone("convert_files") =>
        \A i \in 1..Len(conv_call.ret) :
            /\ CopiedVerbatim(RecordsKept(conv_call.arg)[i], conv_call.ret[i])
            /\ SameAttr(RecordsKept(conv_call.arg)[i], "include_path",
                        conv_call.ret[i], "include_path")

\* C13, amended: the include flag, the library, the copy destination and the
\* tag set are copied unchanged and are absent when absent from the input; the
\* include path, when given, is not copied but resolved like the file name: the
\* output holds an absolute path, the one a file of that name resolves to.
C13_IncludePathResolved ==
    ConvDone("convert_files") =>
        \A i \in 1..Len(conv_call.ret) :
            LET in == RecordsKept(conv_call.arg)[i]
                out == conv_call.ret[i]
            IN  /\ CopiedVerbatim(in, out)
                /\ IF "include_path" \in DOMAIN in
                   THEN /\ "include_path" \in DOMAIN out
                        /\ out.include_path.abs
                        /\ out.include_path = resolve_file_path(in.include_path)
                   ELSE "include_path" \notin DOMAIN out

\* a record with every optional attribute, its relative include path resolved
C13_Witness ==
    /\ ConvDone("convert_files")
    /\ Len(conv_call.ret) = 1
    /\ {"is_include_file", "include_path", "logical_name", "copyto", "tags"}
           \subseteq DOMAIN conv_call.arg[1]
    /\ ~conv_call.arg[1].include_path.abs
    /\ conv_call.ret[1].include_path # conv_call.arg[1].include_path
    /\ conv_call.ret[1].library = conv_call.arg[1].logical_name

\* C22: the 'path' of every record convert_files produces is absolute, for any
\* roots (a relative primary root too) and any named input record; every file
\* name of a descriptor build_edam_from_core produces is that absolute path.
C22_PathsAbsolute ==
    /\ ConvDone("convert_files") =>
           \A i \in 1..Len(conv_call.ret) : conv_call.ret[i].path.abs
    /\ (ConvDone("build_edam_from_core") /\ ~conv_call.raised) =>
           LET converted == convert_files(conv_call.arg.files)
           IN  /\ Len(conv_call.ret.files) = Len(converted)
               /\ \A i \in 1..Len(converted) :
                      /\ conv_call.ret.files[i].name.abs
                      /\ conv_call.ret.files[i].name = converted[i].path

\* a relative name under a relative primary root, the file not on disk
C22_Witness ==
    /\ ConvDone("convert_files")
    /\ ~core_root.abs
    /\ Len(conv_call.ret) = 1
    /\ ~conv_call.arg[1].name.abs
    /\ ~Exists(Join(core_root, conv_call.arg[1].name))
    /\ conv_call.ret[1].path.abs

\* the directories the claim names for a list of records
NamedIncludeDirs(fusesoc_files) ==
    {resolve_file_path(fusesoc_files[i].include_path) :
        i \in {j \in DOMAIN fusesoc_files : "include_path" \in DOMAIN fusesoc_files[j]}}
    \cup
    {PathParent(resolve_file_path(fusesoc_files[i].name)) :
        i \in {j \in DOMAIN fusesoc_files :
                  /\ ~LacksName(fusesoc_files[j])
                  /\ "is_include_file" \in DOMAIN fusesoc_files[j]
                  /\ fusesoc_files[j].is_include_file = TRUE}}

\* C24: extract_include_dirs returns a list in ascending order with no
\* duplicates whose elements are exactly the resolved include_path of every
\* record that has one (named or not) and the parent directory of the resolved
\* path of every named record flagged as an include file.
C24_IncludeDirs ==
    ConvDone("extract_include_dirs") =>
        /\ ~conv_call.raised
        /\ \A i, j \in 1..Len(conv_call.ret) :
               i < j => StrLess(conv_call.ret[i], conv_call.ret[j])
        /\ {conv_call.ret[i] : i \in 1..Len(conv_call.ret)}
               = NamedIncludeDirs(conv_call.arg)

\* two directories from one header record, in order
C24_Witness ==
    /\ ConvDone("extract_include_dirs")
    /\ Len(conv_call.ret) = 2
    /\ StrLess(conv_call.ret[1], conv_call.ret[2])
    /\ \E i \in 1..Len(conv_call.arg) :
           /\ {"name", "include_path", "is_include_file"} \subseteq DOMAIN conv_call.arg[i]
           /\ conv_call.arg[i].is_include_file

-----------------------------------------------------------------------------
(* Claims about the builder, checked under SpecBuilder *)

\* the descriptor a caller holds after build() returned it, as it is now
ReturnedDescriptor == heap[build_ret.ref]

\* C4: every descriptor build() returns, after any sequence of builder calls
\* (including none), has a toplevel that is a single string and not a list;
\* given a list, set_toplevel stores the list's first element.
C4_ToplevelIsString ==
    /\ build_ret.kind = "ref" => snapshot.toplevel.ty = "str"
    /\ (last_call.op = "set_toplevel" /\ last_call.arg.ty = "list"
        /\ last_call.arg.v # <<>>)
       => heap[self_edam].toplevel = Str(last_call.arg.v[1])

\* C5: once build() has returned a descriptor, later calls on the builder
\* leave that descriptor as it was returned.
C5_ReturnedDescriptorUnchanged ==
    build_ret.kind = "ref" => ReturnedDescriptor = snapshot

\* C6: build() raises if and only if the design name is empty; for a
\* non-empty name it returns the builder's descriptor, whatever calls preceded.
C6_BuildFailsIffNameEmpty ==
    last_call.op = "build" =>
        /\ last_call.raised <=> heap[self_edam].name = ""
        /\ build_ret.kind = "raised" <=> heap[self_edam].name = ""
        /\ heap[self_edam].name # "" =>
              /\ build_ret = [kind |-> "ref", ref |-> self_edam]
              /\ snapshot = heap[self_edam]

\* build() raising on a builder that earlier calls have filled
C6_Witness ==
    /\ last_call.op = "build" /\ last_call.raised
    /\ heap[self_edam].name = ""
    /\ heap[self_edam].files # <<>>
    /\ heap[self_edam].toplevel.ty = "str"

\* the chained calls of one builder, as the actions above draw them
BuilderCalls ==
    {[op |-> "add_files", arg |-> a] : a \in DvFileLists}
    \cup {[op |-> "set_toplevel", arg |-> a] : a \in Toplevels}
    \cup {[op |-> "add_parameters", arg |-> a] : a \in ParamMaps}
    \cup {[op |-> "add_plusargs", arg |-> a] : a \in PlusargMaps}
    \cup {[op |-> "set_tool_options", arg |-> <<t, o>>] :
              t \in {"icarus", "ghdl"}, o \in ToolOptionMaps}
    \cup {[op |-> "set_flow_options", arg |-> a] : a \in FlowOptionMaps}
    \cup {[op |-> "add_include_dirs", arg |-> a] : a \in IncludeDirLists}

\* the key of self.edam a chained call writes
FieldOf(call) ==
    CASE call.op = "add_files" -> "files"
      [] call.op = "set_toplevel" -> "toplevel"
      [] call.op \in {"add_parameters", "add_plusargs"} -> "parameters"
      [] call.op \in {"set_tool_options", "add_include_dirs"} -> "tool_options"
      [] call.op = "set_flow_options" -> "flow_options"

\* the descriptor a chained call leaves
Apply(call, edam) ==
    CASE call.op = "add_files" -> add_files(edam, call.arg)
      [] call.op = "set_toplevel" -> set_toplevel(edam, call.arg)
      [] call.op = "add_parameters" -> add_parameters(edam, call.arg)
      [] call.op = "add_plusargs" -> add_plusargs(edam, call.arg)
      [] call.op = "set_tool_options" -> set_tool_options(edam, call.arg[1], call.arg[2])
      [] call.op = "set_flow_options" -> set_flow_options(edam, call.arg)
      [] call.op = "add_include_dirs" -> add_include_dirs(edam, call.arg)

\* the chained call a step of the builder has made, if it made one
Chained(call) == call.op \notin {"__init__", "build"}
CallOf(call) == [op |-> call.op, arg |-> call.arg]

\* the step made the chained call c1; made before or after any call c2 that
\* writes another field, it gives the same descriptor
CommutesWithOthers ==
    Chained(last_call') =>
        LET c1 == CallOf(last_call')
            before == heap[self_edam]
            after == heap'[self_edam]
        IN  /\ \A c2 \in BuilderCalls :
                   FieldOf(c2) # FieldOf(c1) =>
                       Apply(c2, after) = Apply(c1, Apply(c2, before))
            /\ FieldOf(c1) # "files" => after.files = before.files
            /\ FieldOf(c1) # "parameters" => after.parameters = before.parameters

\* C11: two chained calls that write different fields of the descriptor give
\* the same descriptor in either order, whatever calls preceded them; a builder
\* on which no files and no parameters were added has empty files and
\* parameters (they start empty and only the calls that add them change them).
C11_DisjointCallsCommute ==
    /\ [](ncalls = 0 =>
              heap[self_edam].files = <<>> /\ heap[self_edam].parameters = EmptyDict)
    /\ [][CommutesWithOthers]_vars

\* two calls on different fields have acted, one after the other
C11_Witness ==
    /\ ncalls = 2
    /\ last_call.op = "add_files"
    /\ heap[self_edam].files # <<>>
    /\ heap[self_edam].flow_options # EmptyDict
    /\ heap[self_edam].parameters = EmptyDict

\* the datatype tag of a raw value by its Python type
TagOf(value) ==
    CASE value.ty = "bool" -> "bool"
      [] value.ty = "int" -> "int"
      [] value.ty = "float" -> "real"
      [] OTHER -> "str"

\* the call just made added the values of its argument as parameters
Added(op) == last_call.op = op /\ ~last_call.raised

\* C14: the datatype stored for a raw value given to add_parameters or
\* add_plusargs is "bool" for a boolean, "int" for an integer that is no boolean,
\* "real" for a float and "str" for any other value.
C14_InferDatatype ==
    (Added("add_parameters") \/ Added("add_plusargs")) =>
        \A n \in DOMAIN last_call.arg :
            last_call.arg[n] \in RawValues =>
                /\ infer_datatype(last_call.arg[n]) = TagOf(last_call.arg[n])
                /\ heap[self_edam].parameters[n].datatype = TagOf(last_call.arg[n])

\* a float added after a boolean: "real", and "bool" (not "int") before it
C14_Witness ==
    /\ Added("add_parameters")
    /\ last_call.arg = "W" :> PyVal("float", "1.5")
    /\ heap[self_edam].parameters["W"].datatype = "real"
    /\ ncalls >= 2

\* the record add_parameters is to store for a raw value, with the tag that
\* stands for "any other value" left open
InferredRecord(value, other) ==
    [datatype |-> IF TagOf(value) = "str" THEN other ELSE TagOf(value),
     default |-> value, paramtype |-> "vlogparam"]

StoredAs(other) ==
    Added("add_parameters") =>
        \A n \in DOMAIN last_call.arg :
            heap[self_edam].parameters[n] =
                IF last_call.arg[n] \in RawValues
                THEN InferredRecord(last_call.arg[n], other)
                ELSE last_call.arg[n]

\* C15, as stated: add_parameters stores an already typed record as it is, and
\* for a raw value a record with the raw value as default and the datatype
\* "bool", "int", "real" or else "string".
C15_ElseString == StoredAs("string")

\* C15, amended: the same, with the datatype of any other value "str".
C15_ElseStr == StoredAs("str")

\* a typed record stored as given, and a string stored with datatype "str"
C15_Witness ==
    /\ Added("add_parameters")
    /\ last_call.arg = "W" :> TypedRecord
    /\ heap[self_edam].parameters["W"] = TypedRecord
    /\ "S" \in DOMAIN heap[self_edam].parameters
    /\ heap[self_edam].parameters["S"].datatype = "str"
    /\ heap[self_edam].parameters["S"].paramtype = "vlogparam"

\* the flags of the two tools for the directories D, word by word
IcarusWords(D) ==
    [i \in 1..(2 * Len(D)) |-> IF i % 2 = 1 THEN Tok("-I") ELSE DirTok(D[i \div 2])]
VerilatorWords(D) == [i \in 1..Len(D) |-> JoinTok("-I", D[i])]

\* the words of the option list k of a tool, none when it is not set
WordsOf(tool_options, tool, k) ==
    IF tool \in DOMAIN tool_options /\ k \in DOMAIN tool_options[tool]
    THEN tool_options[tool][k].v ELSE <<>>

\* the tool's options other than k are as before
OthersKept(before, after, tool, k) ==
    /\ tool \in DOMAIN after
    /\ DOMAIN after[tool] = DOMAIN Get(before, tool, EmptyDict) \cup {k}
    /\ \A o \in DOMAIN after[tool] \ {k} : after[tool][o] = before[tool][o]

\* the option list k of the tool is a list, or is not set
ListOrUnset(tool_options, tool, k) ==
    (tool \in DOMAIN tool_options /\ k \in DOMAIN tool_options[tool])
        => tool_options[tool][k].ty = "list"

\* the step was add_include_dirs(D), made with both option lists lists or unset
IncludeDirsAdded ==
    (/\ last_call'.op = "add_include_dirs"
     /\ ListOrUnset(heap[self_edam].tool_options, "icarus", "iverilog_options")
     /\ ListOrUnset(heap[self_edam].tool_options, "verilator", "verilator_options")) =>
        LET D == last_call'.arg
            before == heap[self_edam].tool_options
            after == heap'[self_edam].tool_options
        IN  /\ ~last_call'.raised
            /\ after["icarus"]["iverilog_options"].ty = "list"
            /\ WordsOf(after, "icarus", "iverilog_options") =
                   WordsOf(before, "icarus", "iverilog_options") \o IcarusWords(D)
            /\ after["verilator"]["verilator_options"].ty = "list"
            /\ WordsOf(after, "verilator", "verilator_options") =
                   WordsOf(before, "verilator", "verilator_options") \o VerilatorWords(D)
            /\ OthersKept(before, after, "icarus", "iverilog_options")
            /\ OthersKept(before, after, "verilator", "verilator_options")
            /\ DOMAIN after = DOMAIN before \cup {"icarus", "verilator"}
            /\ \A tool \in DOMAIN after \ {"icarus", "verilator"} :
                   after[tool] = before[tool]
            /\ [heap'[self_edam] EXCEPT !.tool_options = before] = heap[self_edam]

\* C20: add_include_dirs(D), when the two option lists are lists or not yet set,
\* appends '-I', d for each d of D in order to icarus' iverilog_options and
\* '-I<d>' for each d of D in order to verilator's verilator_options, keeps the
\* options already there, and leaves every other tool's options and every other
\* field unchanged.
C20_IncludeFlagsAppended == [][IncludeDirsAdded]_vars

\* two directories added after options were set for icarus and for ghdl
C20_Witness ==
    /\ last_call.op = "add_include_dirs" /\ ~last_call.raised
    /\ Len(last_call.arg) = 2
    /\ "ghdl" \in DOMAIN heap[self_edam].tool_options
    /\ Len(WordsOf(heap[self_edam].tool_options, "icarus", "iverilog_options")) = 5
    /\ Len(WordsOf(heap[self_edam].tool_options, "verilator", "verilator_options")) = 2

\* what a step of the builder does to the parameters of the descriptor
ParameterStep ==
    LET before == heap[self_edam].parameters
        after == heap'[self_edam].parameters
        given == last_call'.arg
    IN  /\ last_call'.op = "add_plusargs" =>
               /\ DOMAIN after = DOMAIN before \cup DOMAIN given
               /\ \A n \in DOMAIN given :
                      /\ after[n].paramtype = "plusarg"
                      /\ after[n].default = given[n]
               /\ \A n \in DOMAIN before \ DOMAIN given : after[n] = before[n]
        /\ last_call'.op = "add_parameters" =>
               /\ DOMAIN after = DOMAIN before \cup DOMAIN given
               /\ \A n \in DOMAIN given :
                      given[n] \in RawValues =>
                          /\ after[n].paramtype = "vlogparam"
                          /\ after[n].default = given[n]
               /\ \A n \in DOMAIN before \ DOMAIN given : after[n] = before[n]
        /\ last_call'.op \notin {"add_plusargs", "add_parameters"} => after = before

\* C21: every record add_plusargs stores has paramtype 'plusarg' and the given
\* value as default, every record add_parameters builds from a raw value has
\* paramtype 'vlogparam', and the descriptor holds one record per parameter
\* name: the names are the names given so far, a name given again has the
\* record of the last call that gave it.
C21_ParameterKinds == [][ParameterStep]_vars

\* a plusarg given under the name of an earlier build-time parameter
C21_Witness ==
    /\ Added("add_plusargs")
    /\ DOMAIN last_call.arg = {"W"}
    /\ DOMAIN heap[self_edam].parameters = {"W", "S"}
    /\ heap[self_edam].parameters["W"].paramtype = "plusarg"
    /\ heap[self_edam].parameters["S"].paramtype = "vlogparam"

\* the EDAM record add_files is to append for the input record x
IsEdamFileOf(rec, x) ==
    /\ rec.name = IF "path" \in DOMAIN x THEN x.path
                  ELSE IF "name" \in DOMAIN x THEN x.name ELSE NoneStr
    /\ rec.file_type = IF "type" \in DOMAIN x /\ x.type \in DOMAIN type_map
                       THEN type_map[x.type] ELSE "user"
    /\ DOMAIN rec \subseteq
           {"name", "file_type", "is_include_file", "include_path", "logical_name"}
    /\ "is_include_file" \in DOMAIN rec <=>
           ("is_include" \in DOMAIN x /\ x.is_include = TRUE)
    /\ "is_include_file" \in DOMAIN rec => rec.is_include_file = TRUE
    /\ "include_path" \in DOMAIN rec <=>
           ("include_path" \in DOMAIN x /\ x.include_path # EmptyStr)
    /\ "include_path" \in DOMAIN rec => rec.include_path = x.include_path
    /\ "logical_name" \in DOMAIN rec <=> ("library" \in DOMAIN x /\ x.library # "")
    /\ "logical_name" \in DOMAIN rec => rec.logical_name = x.library

FilesStep ==
    last_call'.op = "add_files" =>
        LET before == heap[self_edam].files
            after == heap'[self_edam].files
            given == last_call'.arg
        IN  /\ Len(after) = Len(before) + Len(given)
            /\ SubSeq(after, 1, Len(before)) = before
            /\ \A i \in 1..Len(given) : IsEdamFileOf(after[Len(before) + i], given[i])

\* C23: add_files appends, after the files already there and in input order, one
\* record per input record: its name is the input's path (its name when it has
\* no path), its file_type the target of the builder's table for the input's
\* type and 'user' for a missing or unknown type, and is_include_file,
\* include_path and logical_name are set exactly when the input's is_include,
\* include_path and library are there and not empty (not false).
C23_AddFilesAppends == [][FilesStep]_vars

\* records with falsy attributes and an unknown type appended after two others
C23_Witness ==
    /\ last_call.op = "add_files"
    /\ last_call.arg = <<DvFile3, DvFile4>>
    /\ Len(heap[self_edam].files) = 4
    /\ Get(heap[self_edam].files[1], "is_include_file", FALSE)
    /\ DOMAIN heap[self_edam].files[3] = {"name", "file_type"}
    /\ heap[self_edam].files[4].file_type = "user"

\* new holds every given key with the given value and every other key of old
Merged(old, options, new) ==
    /\ DOMAIN new = DOMAIN old \cup DOMAIN options
    /\ \A k \in DOMAIN options : new[k] = options[k]
    /\ \A k \in DOMAIN old \ DOMAIN options : new[k] = old[k]

OptionsStep ==
    LET old == heap[self_edam]
        new == heap'[self_edam]
        arg == last_call'.arg
    IN  /\ (ncalls' = ncalls + 1 /\ last_call'.op = "set_tool_options") =>
               /\ arg[1] \in DOMAIN new.tool_options
               /\ Merged(Get(old.tool_options, arg[1], EmptyDict), arg[2],
                         new.tool_options[arg[1]])
               /\ \A t \in DOMAIN old.tool_options \ {arg[1]} :
                      /\ t \in DOMAIN new.tool_options
                      /\ new.tool_options[t] = old.tool_options[t]
        /\ (ncalls' = ncalls + 1 /\ last_call'.op = "set_flow_options") =>
               Merged(old.flow_options, arg, new.flow_options)

\* C25: set_tool_options and set_flow_options merge: after the call every
\* given key has the given value, every key set earlier and not given keeps its
\* value, and set_tool_options leaves the options of every other tool as they
\* were.
C25_OptionsMerge == [][OptionsStep]_vars

\* icarus holds an earlier key next to the one just given, beside another tool
C25_Witness ==
    /\ last_call.op = "set_tool_options"
    /\ last_call.arg[1] = "icarus"
    /\ "icarus" \in DOMAIN heap[self_edam].tool_options
    /\ DOMAIN heap[self_edam].tool_options["icarus"] # DOMAIN last_call.arg[2]
    /\ DOMAIN heap[self_edam].tool_options # {"icarus"}

-----------------------------------------------------------------------------
(* Claims about the task wrappers, checked under SpecTasks *)

Range(s) == {s[i] : i \in 1..Len(s)}

TaskDone(task) == task_call # Idle /\ task_call.task = task

HasError(markers) == \E i \in 1..Len(markers) : markers[i].severity = "Error"

\* the steps that are calls into FuseSoC or Edalize
ExternalSteps ==
    {"import", "flow_init", "flow_configure", "flow_build", "flow_run",
     "FuseSoCManager()", "add_library", "resolve_core", "get_core_files",
     "get_dependencies"}

\* the steps whose exception EdalizeBackend.configure catches itself
BackendCaught == {"flow_init", "flow_configure"}

ExternalException == task_call # Idle /\ task_call.occurred \in ExternalSteps

FailureReported ==
    /\ task_call.result # None
    /\ task_call.result.status = 1
    /\ HasError(task_call.result.markers)

\* C7, as stated: when a call into FuseSoC or Edalize raises during
\* CoreResolve, SimConfigure, SimBuild or SimRun, the wrapper returns status 1,
\* at least one Error marker and an empty output list.
C7_EmptyOutputOnException ==
    ExternalException => FailureReported /\ task_call.result.output = <<>>

\* C7, amended: when a call into FuseSoC or Edalize raises, the wrapper returns
\* status 1 and at least one Error marker; the output list is empty unless the
\* exception was raised by the flow's constructor or its configure() inside
\* SimConfigure, where EdalizeBackend.configure catches it and the output is
\* one record with configured = False, changed = True.
C7_FailureOnException ==
    ExternalException =>
        /\ FailureReported
        /\ IF task_call.occurred \in BackendCaught
           THEN /\ task_call.result.changed
                /\ task_call.result.output =
                       <<[work_root |-> WorkRoot(task_call.rundir),
                          tool |-> task_call.params.tool, configured |-> FALSE]>>
           ELSE /\ ~task_call.result.changed
                /\ task_call.result.output = <<>>

C7_Witness ==
    /\ TaskDone("SimConfigure")
    /\ task_call.occurred = "flow_configure"
    /\ task_call.result.status = 1
    /\ Len(task_call.result.output) = 1

\* the work directory of the call was configured by an earlier SimConfigure
OnConfigured == configured[task_call.rundir] # NoneS

NoException == ~task_call.raised /\ task_call.occurred = "none"

\* C8: after SimConfigure succeeded for a work directory, SimBuild on it calls
\* the flow's build step and SimRun on it calls the flow's run step, and each
\* returns status 0 when the step raises nothing and its success check passes.
C8_ConfiguredBackendUsed ==
    /\ TaskDone("SimBuild") /\ OnConfigured /\ NoException =>
           /\ "flow.build()" \in Range(task_call.calls)
           /\ check_build_success(
                  [EdalizeBackend("Sim", task_call.backend_edam,
                                  task_call.params.work_root) EXCEPT !.flow = FlowObj],
                  task_call.artifacts) => task_call.result.status = 0
    /\ TaskDone("SimRun") /\ OnConfigured /\ NoException =>
           /\ "flow.run()" \in Range(task_call.calls)
           /\ task_call.result.status = 0

\* C9, as stated: in SimBuild, when the descriptor file is missing or
\* malformed, the empty descriptor is substituted and the task goes on to the
\* build step; it does not fail at the read.
C9_MissingOrMalformedSubstituted ==
    TaskDone("SimBuild") /\ task_call.seen \in {"missing", "malformed"} =>
        /\ task_call.occurred # "read"
        /\ task_call.backend_edam = EmptyDict
        /\ task_call.occurred # "mkdir" =>
               "EdalizeBackend.build()" \in Range(task_call.calls)

\* C9, amended: in SimBuild, when neither "<tool>.edam" nor "edam.json" is in
\* the work directory, the empty descriptor is substituted without a message
\* and the task goes on to EdalizeBackend.build(); when the file it opens is
\* malformed, json.load raises, the wrapper returns status 1 with an Error
\* marker and an empty output, and EdalizeBackend.build() is not called.
C9_MissingSubstitutedMalformedFails ==
    TaskDone("SimBuild") =>
        /\ task_call.seen = "missing" =>
               /\ task_call.occurred # "read"
               /\ task_call.backend_edam = EmptyDict
               /\ task_call.occurred # "mkdir" =>
                      "EdalizeBackend.build()" \in Range(task_call.calls)
        /\ task_call.seen = "malformed" =>
               /\ task_call.occurred = "read"
               /\ FailureReported
               /\ task_call.result.output = <<>>
               /\ "EdalizeBackend.build()" \notin Range(task_call.calls)

C9_Witness ==
    /\ TaskDone("SimBuild")
    /\ task_call.seen = "malformed"
    /\ task_call.occurred = "read"
    /\ task_call.result.status = 1

\* C10: every invocation of CoreResolve, SimConfigure, SimBuild or SimRun
\* returns a result whose status is 0 or 1; no exception of FuseSoC, of Edalize
\* or of the descriptor builder leaves the wrapper.
C10_AlwaysReturnsStatus ==
    task_call # Idle =>
        /\ ~task_call.propagated
        /\ task_call.result # None
        /\ task_call.result.status \in {0, 1}

C10_Witness ==
    /\ TaskDone("SimConfigure")
    /\ task_call.occurred = "builder"
    /\ ~task_call.propagated
    /\ task_call.result.status = 1


\* C16: when SimConfigure returns status 0, its output is one record with
\* configured = true, the requested tool and work_root = <rundir>/sim_work, and
\* that directory is on disk.
C16_ConfiguredOutput ==
    TaskDone("SimConfigure") /\ task_call.result.status = 0 =>
        LET sim_work == Join(task_call.rundir, Rel(<<"sim_work">>))
        IN  /\ task_call.result.output =
                   <<[work_root |-> sim_work, tool |-> task_call.params.tool,
                      configured |-> TRUE]>>
            /\ sim_work \in work_dirs

\* a second rundir configured with another tool, the first still on disk
C16_Witness ==
    /\ TaskDone("SimConfigure")
    /\ task_call.result.status = 0
    /\ task_call.rundir = Abs(<<"r2">>)
    /\ task_call.params.tool = "verilator"
    /\ task_call.params.include_dirs # <<>>
    /\ Abs(<<"r1", "sim_work">>) \in work_dirs
    /\ Abs(<<"r2", "sim_work">>) \in work_dirs


\* the resolution of the design identifier failed: resolve_core raised, or the
\* identifier names no core
ResolutionFailed ==
    /\ TaskDone("CoreResolve")
    /\ task_call.occurred = "resolve_core" \/ task_call.params.core = "nonexistent"

\* C17: when the resolution of the design identifier fails in CoreResolve, the
\* result has a status other than 0, at least one Error marker, an empty output
\* and no memento.
C17_ResolutionFailure ==
    ResolutionFailed =>
        /\ task_call.result # None
        /\ task_call.result.status # 0
        /\ HasError(task_call.result.markers)
        /\ task_call.result.output = <<>>
        /\ task_call.result.memento = None

\* a nonexistent identifier, the libraries added, resolve_core raising
C17_Witness ==
    /\ ResolutionFailed
    /\ task_call.params.core = "nonexistent"
    /\ task_call.occurred = "resolve_core"
    /\ task_call.params.libraries # EmptyDict
    /\ task_call.result.status = 1


\* C18: a CoreResolve result with status 0 carries exactly one output record,
\* an Info marker naming the resolved core, and a memento whose core, target
\* and tool are those of the request; a result with status 1 carries no memento.
C18_SuccessCarriesMemento ==
    TaskDone("CoreResolve") =>
        LET result == task_call.result
        IN  /\ result.status = 0 =>
                   /\ Len(result.output) = 1
                   /\ Marker("Info", <<"Resolved core: ", result.output[1].core_name>>)
                          \in Range(result.markers)
                   /\ result.memento # None
                   /\ result.memento.core = task_call.params.core
                   /\ result.memento.target = task_call.params.target
                   /\ result.memento.tool = task_call.params.tool
            /\ result.status = 1 => result.memento = None

\* a core resolved for a target and a tool, one of its files converted
C18_Witness ==
    /\ TaskDone("CoreResolve")
    /\ task_call.result.status = 0
    /\ task_call.params.target = "sim"
    /\ task_call.params.tool = "icarus"
    /\ task_call.result.memento.tool = "icarus"
    /\ Len(task_call.result.output[1].files) = 1


\* how many times the call x was made
Count(calls, x) == Cardinality({i \in 1..Len(calls) : calls[i] = x})

\* the delegated steps and the name under which a raising one is recorded
DelegatedSteps ==
    {<<"resolve_core", "resolve_core">>, <<"flow.configure()", "flow_configure">>,
     <<"flow.build()", "flow_build">>, <<"flow.run()", "flow_run">>}

\* the step was called at most once; if it raised it was called once, nothing
\* was called after it, and the result reports the failure
OnceAndReported(calls, step, raised_here, reported) ==
    /\ Count(calls, step) <= 1
    /\ raised_here =>
           /\ Count(calls, step) = 1
           /\ calls[Len(calls)] = step
           /\ reported

\* C19: within one invocation of a task wrapper each delegated step (core
\* resolution, flow configure, flow build, flow run) is called at most once, and
\* a failure of the step is reported in the result (status 1, an Error marker)
\* with no second attempt.  On the backend SimConfigure has configured, build()
\* and run() likewise call the flow's step once and report a raising step as
\* (False, message).
C19_NoRetry ==
    /\ task_call # Idle =>
           \A d \in DelegatedSteps :
               OnceAndReported(task_call.calls, d[1], task_call.occurred = d[2],
                               FailureReported)
    /\ (TaskDone("SimConfigure") /\ task_call.result.status = 0) =>
           LET sim_be  == [EdalizeBackend("Sim", task_call.backend_edam,
                                          WorkRoot(task_call.rundir))
                               EXCEPT !.flow = FlowObj]
           IN  /\ \A f \in BuildFailures, a \in Artifacts :
                      LET b == EdalizeBackend_build(sim_be, f, a)
                      IN  OnceAndReported(b.calls, "flow.build()",
                                          b.occurred = "flow_build", ~b.ret)
               /\ \A f \in RunFailures :
                      LET r == EdalizeBackend_run(sim_be, f)
                      IN  OnceAndReported(r.calls, "flow.run()",
                                          r.occurred = "flow_run", ~r.ret)

\* flow.configure() raised in SimConfigure: called once, reported
C19_Witness ==
    /\ TaskDone("SimConfigure")
    /\ task_call.occurred = "flow_configure"
    /\ Count(task_call.calls, "flow.configure()") = 1
    /\ task_call.result.status = 1

\* the directory CoreResolve works in
WorkspaceOf(call) ==
    IF call.params.workspace # None THEN call.params.workspace
    ELSE Join(call.rundir, Rel(<<"fusesoc_workspace">>))

\* every library of the request is added before the core is resolved
LibrariesBeforeResolve ==
    (TaskDone("CoreResolve") /\ "resolve_core" \in Range(task_call.calls)) =>
        /\ task_call.manager # None
        /\ task_call.manager.libraries = DOMAIN task_call.params.libraries
        /\ task_call.params.libraries # EmptyDict =>
               \E i, j \in 1..Len(task_call.calls) :
                   /\ i < j
                   /\ task_call.calls[i] = "add_library"
                   /\ task_call.calls[j] = "resolve_core"

\* C26: the core manager that resolves the core is configured with the
\* workspace directory (the workspace parameter, or <rundir>/fusesoc_workspace
\* when none is given), and the libraries of the request are added to it before
\* the core is resolved.
C26_ManagerInWorkspace ==
    /\ (TaskDone("CoreResolve") /\ "resolve_core" \in Range(task_call.calls)) =>
           /\ task_call.manager # None
           /\ task_call.manager.config_dir = WorkspaceOf(task_call)
    /\ LibrariesBeforeResolve

\* C28: in every result a task returns, status is 0 exactly when no message
\* has Error severity, the output list is empty exactly when changed is false,
\* and a result with status 0 has exactly one output record.
C28_ResultShape ==
    (task_call # Idle /\ task_call.result # None) =>
        LET result == task_call.result
        IN  /\ task_call.task \in {"CoreResolve", "SimConfigure", "SimBuild", "SimRun"}
            /\ result.status = 0 <=>
                   ~\E i \in 1..Len(result.markers) : result.markers[i].severity = "Error"
            /\ result.output = <<>> <=> result.changed = FALSE
            /\ result.status = 0 => Len(result.output) = 1

\* a failure the backend reported: status 1 with an Error message, and still
\* one output record on a changed result
C28_Witness ==
    /\ TaskDone("SimBuild")
    /\ ~task_call.raised
    /\ task_call.result.status = 1
    /\ task_call.result.changed
    /\ Len(task_call.result.output) = 1
    /\ \E i \in 1..Len(task_call.result.markers) :
           task_call.result.markers[i].severity = "Error"

\* the option lists of the descriptor hold the include flag of directory d
HasIncludeFlags(edam, d) ==
    LET iv == WordsOf(edam.tool_options, "icarus", "iverilog_options")
        vl == WordsOf(edam.tool_options, "verilator", "verilator_options")
    IN  /\ \E i \in 1..(Len(iv) - 1) : iv[i] = Tok("-I") /\ iv[i + 1] = DirTok(d)
        /\ \E i \in 1..Len(vl) : vl[i] = JoinTok("-I", d)

\* C29: in SimConfigure, for a request with a non-empty include_dirs list, the
\* descriptor handed to the backend holds the include flag of every listed
\* directory in the options of icarus and of verilator, whatever tool_options
\* the request carries for the selected tool.
C29_IncludeFlagsReachBackend ==
    (/\ TaskDone("SimConfigure")
     /\ task_call.params.include_dirs # <<>>
     /\ task_call.backend_edam # None) =>
        \A i \in 1..Len(task_call.params.include_dirs) :
            HasIncludeFlags(task_call.backend_edam, task_call.params.include_dirs[i])

\* every name of the parameter map is in the descriptor with the record the
\* map gives it: the record itself, or a build-time record of the raw value
ParametersKept(edam, parameters) ==
    \A n \in DOMAIN parameters :
        /\ n \in DOMAIN edam.parameters
        /\ edam.parameters[n] =
               IF IsDict(parameters[n]) THEN parameters[n]
               ELSE [datatype |-> infer_datatype(parameters[n]),
                     default |-> parameters[n], paramtype |-> "vlogparam"]

\* C30: in SimConfigure and in build_edam_from_core, every name of the
\* build-time parameter map is in the built descriptor with the record derived
\* from that map, for every pair of parameter map and plusarg map, also when
\* the two maps share a name.
C30_ParametersSurvivePlusargs ==
    /\ (TaskDone("SimConfigure") /\ task_call.backend_edam # None) =>
           ParametersKept(task_call.backend_edam, task_call.params.parameters)
    /\ (ConvDone("build_edam_from_core") /\ ~conv_call.raised) =>
           ParametersKept(conv_call.ret, conv_call.arg.parameters)

-----------------------------------------------------------------------------
(* Claims about one backend, checked under SpecBackend *)

\* a configure() before call j of the log returned True
ConfiguredBefore(j) ==
    \E i \in 1..(j - 1) : backend.log[i].op = "configure" /\ backend.log[i].ret

InvokesFlow(entry) ==
    \E k \in 1..Len(entry.calls) : entry.calls[k] \in {"flow.build()", "flow.run()"}

\* C27: on one backend, build() and run() invoke the wrapped flow only if an
\* earlier configure() on it returned True; in every other state they return
\* failure without invoking the flow.
C27_FlowOnlyAfterConfigured ==
    \A j \in 1..Len(backend.log) :
        (backend.log[j].op \in {"build", "run"} /\ ~ConfiguredBefore(j)) =>
            /\ ~InvokesFlow(backend.log[j])
            /\ backend.log[j].ret = FALSE

=============================================================================
